---- MODULE Spec2Model ----
(***************************************************************************)
(* Model of the Jira MTTR metrics ETL: jira_metrics_etl.py (CSV sink) and  *)
(* get_jira_issue.py (Google Sheets sink).  One run of the script is the   *)
(* state machine  config check -> fetch -> calculate -> write -> exit.     *)
(*                                                                         *)
(* Strings are sequences of one-character strings.  A JSON value that may  *)
(* be null is the record [isNull, str].  A date-time "2024-01-01T10:00:00" *)
(* is abstracted to a single body character ("a" = minute 0, "b" = minute  *)
(* 60 of the same day); the UTC designator and the numeric offset that     *)
(* follow it are kept character by character, since that is the part the   *)
(* code's string handling works on.                                        *)
(***************************************************************************)
EXTENDS Integers, Sequences, FiniteSets, TLC

VARIABLES
    variant,      \* "csv" (jira_metrics_etl.py) or "sheet" (get_jira_issue.py)
    env,          \* environment variable name -> "unset" | "empty" | "set"
    pc,           \* position of the script
    exitStatus,   \* -1 while running, else the process exit status
    uncaught,     \* name of the exception that ended the run, or "none"
    httpCalls,    \* number of requests.get calls made
    fetchResult,  \* "none" | "error" | "ok"
    issues,       \* jira_issues in __main__
    metrics,      \* calculated_metrics in __main__
    trace,        \* stage functions called so far, in call order
    sinkBefore,   \* content of the destination before the run
    sink,         \* content of the destination (file rows / first tab rows)
    sinkOps,      \* I/O calls attempted on the destination, in order
    writeResult,  \* which branch the writer ended in
    fmtPc,        \* position of the reformat_jira_timestamp harness
    fmtIn,        \* argument of reformat_jira_timestamp
    fmtOut,       \* reformat_jira_timestamp(fmtIn)
    fmtOut2       \* reformat_jira_timestamp(fmtOut)

vars == <<variant, env, pc, exitStatus, uncaught, httpCalls, fetchResult,
          issues, metrics, trace, sinkBefore, sink, sinkOps, writeResult,
          fmtPc, fmtIn, fmtOut, fmtOut2>>

pipeVars == <<variant, env, pc, exitStatus, uncaught, httpCalls, fetchResult,
              issues, metrics, trace, sinkBefore, sink, sinkOps, writeResult>>

fmtVars == <<fmtPc, fmtIn, fmtOut, fmtOut2>>

----------------------------------------------------------------------------
(* Bounds *)

MaxIssues == 2
MaxLen == 5

----------------------------------------------------------------------------
(* Strings and JSON values *)

JsonNull == [isNull |-> TRUE, str |-> <<>>]

JsonStr(s) == [isNull |-> FALSE, str |-> s]

\* Python truthiness of a value that is None or a str
Truthy(v) == ~v.isNull /\ v.str # <<>>

\* str.replace('Z', '+00:00'): every occurrence is replaced
RECURSIVE ReplaceZ(_)
ReplaceZ(s) ==
    IF s = <<>> THEN <<>>
    ELSE (IF Head(s) = "Z" THEN <<"+", "0", "0", ":", "0", "0">> ELSE <<Head(s)>>)
         \o ReplaceZ(Tail(s))

\* s[-k] for 1 <= k <= Len(s)
FromEnd(s, k) == s[Len(s) - k + 1]

\* reformat_jira_timestamp without the test that the offset has no colon yet
reformat_always_insert(ts_str) ==
    LET t == ReplaceZ(ts_str)
    IN  IF Len(t) >= 5 /\ FromEnd(t, 5) \in {"+", "-"}
        THEN SubSeq(t, 1, Len(t) - 2) \o <<":">> \o SubSeq(t, Len(t) - 1, Len(t))
        ELSE t

\* reformat_jira_timestamp for a str argument
reformat_jira_timestamp(ts_str) ==
    LET t == ReplaceZ(ts_str)
    IN  IF Len(t) >= 5 /\ FromEnd(t, 5) \in {"+", "-"} /\ FromEnd(t, 3) # ":"
        THEN SubSeq(t, 1, Len(t) - 2) \o <<":">> \o SubSeq(t, Len(t) - 1, Len(t))
        ELSE t

----------------------------------------------------------------------------
(* datetime.fromisoformat and datetime subtraction on the abstracted strings *)

BodyChars == {"a", "b"}

Digits == {"0", "1"}

BodyMinutes(c) == IF c = "a" THEN 0 ELSE 60

DigitVal(c) == IF c = "1" THEN 1 ELSE 0

\* fromisoformat: a body alone is a naive date-time, a body followed by
\* sign H H : M M is an aware one; anything else raises ValueError.
\* minutes is the wall-clock value for a naive result, the UTC instant for
\* an aware one.
fromisoformat(s) ==
    IF Len(s) = 1 /\ s[1] \in BodyChars
    THEN [ok |-> TRUE, aware |-> FALSE, minutes |-> BodyMinutes(s[1])]
    ELSE IF /\ Len(s) = 7
            /\ s[1] \in BodyChars
            /\ s[2] \in {"+", "-"}
            /\ s[3] \in Digits /\ s[4] \in Digits
            /\ s[5] = ":"
            /\ s[6] \in Digits /\ s[7] \in Digits
    THEN LET off == 60 * (10 * DigitVal(s[3]) + DigitVal(s[4]))
                    + 10 * DigitVal(s[6]) + DigitVal(s[7])
         IN  [ok |-> TRUE, aware |-> TRUE,
              minutes |-> BodyMinutes(s[1]) - (IF s[2] = "+" THEN off ELSE -off)]
    ELSE [ok |-> FALSE, aware |-> FALSE, minutes |-> 0]

\* round(minutes / 60, 2), in hundredths of an hour.  100 * m / 60 = 5m / 3
\* never lies halfway between two hundredths, so round-half-even is
\* round-to-nearest here.
RoundHours(m) ==
    LET q == (5 * m) \div 3
        r == (5 * m) % 3
    IN  IF r = 2 THEN q + 1 ELSE q

\* The subtraction with its operands exchanged
MttrHoursSwapped(created_dt, resolved_dt) ==
    RoundHours(created_dt.minutes - resolved_dt.minutes)

\* resolved_dt - created_dt, total_seconds() / 3600, round(.., 2)
MttrHours(created_dt, resolved_dt) ==
    RoundHours(resolved_dt.minutes - created_dt.minutes)

----------------------------------------------------------------------------
(* calculate_mttr *)

\* One iteration of the for loop over issues.  acc is
\* [raised, metrics]; raised names the exception that left the function.
CalcStep(acc, issue) ==
    IF acc.raised # "none" THEN acc
    ELSE
    LET created_str == issue.created
        resolved_str == issue.resolutiondate
    IN  IF Truthy(created_str) /\ Truthy(resolved_str)
        THEN LET created_dt == fromisoformat(reformat_jira_timestamp(created_str.str))
                 resolved_dt == fromisoformat(reformat_jira_timestamp(resolved_str.str))
             IN  IF ~created_dt.ok \/ ~resolved_dt.ok
                 THEN acc                      \* except ValueError: logged, skipped
                 ELSE IF created_dt.aware # resolved_dt.aware
                 THEN [acc EXCEPT !.raised = "TypeError"]   \* not caught
                 ELSE [acc EXCEPT !.metrics = Append(@,
                          [key |-> issue.key,
                           summary |-> issue.summary,
                           created |-> created_str,
                           resolved |-> resolved_str,
                           mttr_hours |-> MttrHours(created_dt, resolved_dt)])]
        ELSE acc                               \* missing date: logged, skipped

RECURSIVE CalcLoop(_, _)
CalcLoop(acc, rest) ==
    IF rest = <<>> THEN acc
    ELSE CalcLoop(CalcStep(acc, Head(rest)), Tail(rest))

calculate_mttr(iss) == CalcLoop([raised |-> "none", metrics |-> <<>>], iss)

----------------------------------------------------------------------------
(* Sinks.  The destination is a sequence of rows, a row a sequence of five *)
(* cells, a cell [s, n]: text s, or the number n (hundredths) when s is    *)
(* empty and the column is numeric.                                        *)

TextCell(s) == [s |-> s, n |-> 0]

NumCell(n) == [s |-> <<>>, n |-> n]

\* csv.writer and the Sheets API both render None as an empty cell
JsonCell(v) == IF v.isNull THEN TextCell(<<>>) ELSE TextCell(v.str)

headers ==
    << TextCell(<<"Issue Key">>), TextCell(<<"Summary">>),
       TextCell(<<"Created Date">>), TextCell(<<"Resolved Date">>),
       TextCell(<<"MTTR (Hours)">>) >>

MetricRow(m) ==
    << JsonCell(m.key), JsonCell(m.summary), JsonCell(m.created),
       JsonCell(m.resolved), NumCell(m.mttr_hours) >>

\* header row followed by one row per metric, in order
data_to_upload(ms) == <<headers>> \o [i \in 1..Len(ms) |-> MetricRow(ms[i])]

\* A row left in the destination by an earlier run
OldRow ==
    << TextCell(<<"old">>), TextCell(<<"old">>), TextCell(<<"old">>),
       TextCell(<<"old">>), NumCell(7) >>

\* An earlier run's content, longer than anything one run writes
OldContent == [i \in 1..(MaxIssues + 3) |-> OldRow]

\* open(filename, 'w'): create or truncate
OpenTruncate(content) == <<>>

\* File content when the with-block is left after `written` writerow calls
CsvContentAfter(old, data, opened, written) ==
    IF ~opened THEN old
    ELSE OpenTruncate(old) \o SubSeq(data, 1, written)

\* A clear() that leaves the tab as it is
SheetClearNothing(content) == content

\* Worksheet.clear()
SheetClear(content) == <<>>

\* Worksheet.update('A1', data): overwrites the rows the data covers and
\* leaves the rows below them as they are
SheetUpdate(content, data) ==
    [i \in 1..(IF Len(content) > Len(data) THEN Len(content) ELSE Len(data)) |->
        IF i <= Len(data) THEN data[i] ELSE content[i]]

\* The remote calls of write_to_google_sheet, in call order
SheetSteps == <<"authorize", "open", "clear", "update">>

\* write_to_google_sheet with the rows uploaded before the tab is cleared,
\* so that a failure of the last remote call leaves the tab holding them
SheetContentUpdateFirst(old, data, failAt) ==
    IF failAt \in {1, 2} THEN old
    ELSE IF failAt \in {3, 4} THEN SheetUpdate(old, data)
    ELSE SheetUpdate(SheetClear(old), data)

\* Tab content when write_to_google_sheet returns.  failAt = 0: no call
\* raised; failAt = k: the k-th remote call raised (and had no effect).
SheetContentAfter(old, data, failAt) ==
    IF failAt \in {1, 2, 3} THEN old
    ELSE IF failAt = 4 THEN SheetClear(old)
    ELSE SheetUpdate(SheetClear(old), data)

\* except-branch taken when the k-th remote call raises exception class e
SheetBranches(k) ==
    IF k = 1 THEN {"other"}
    ELSE IF k = 2 THEN {"notfound", "apierror", "other"}
    ELSE {"apierror", "other"}

----------------------------------------------------------------------------
(* Inputs of a run *)

JIRA_PROJECT_KEY == "SEC"

\* Issue keys are distinct: "SEC-1", "SEC-2", ...
KeyOf(i) == JsonStr(<<JIRA_PROJECT_KEY, "-", ToString(i)>>)

\* Odd-numbered issues carry a summary, even-numbered ones a null summary
SummaryOf(i) == IF i % 2 = 1 THEN JsonStr(<<"s">>) ELSE JsonNull

\* Shapes of a created / resolutiondate value
TsValues ==
    { JsonNull,                                    \* absent
      JsonStr(<<>>),                               \* empty
      JsonStr(<<"a", "+">>),                       \* unparseable
      JsonStr(<<"a", "Z">>),                       \* minute 0, UTC designator
      JsonStr(<<"b", "+", "0", "0", "0", "1">>),   \* minute 59 UTC, offset +0001
      JsonStr(<<"a", "-", "0", "0", ":", "0", "1">>),  \* minute 1 UTC, offset -00:01
      JsonStr(<<"b">>) }                           \* minute 60, no offset

\* The issues array of n issues with created values c and resolutiondate
\* values r
IssueList(n, c, r) ==
    [i \in 1..n |-> [key |-> KeyOf(i),
                     summary |-> SummaryOf(i),
                     created |-> c[i],
                     resolutiondate |-> r[i]]]

Variants == {"csv", "sheet"}

\* Names passed to all([...]) in the module-level check
RequiredEnv(v) ==
    IF v = "csv" THEN {"JIRA_URL", "JIRA_EMAIL", "JIRA_API_TOKEN"}
    ELSE {"JIRA_URL", "JIRA_EMAIL", "JIRA_API_TOKEN", "GOOGLE_SHEETS_CREDS_JSON_PATH"}

\* A test for None only: the empty string passes
EnvNotNone(e, name) == e[name] # "unset"

\* os.environ.get(name) is truthy
EnvTruthy(e, name) == e[name] = "set"

\* all([JIRA_URL, JIRA_EMAIL, JIRA_API_TOKEN (, GOOGLE_SHEETS_CREDS_JSON_PATH)])
ConfigOk(v, e) == \A name \in RequiredEnv(v) : EnvTruthy(e, name)

\* Characters of the strings reformat_jira_timestamp is applied to
FmtChars == {"a", "Z", "+", "-", ":", "0"}

FmtStrings == UNION { [1..n -> FmtChars] : n \in 0..MaxLen }

----------------------------------------------------------------------------
(* The run of the script *)

Init ==
    /\ variant \in Variants
    /\ env \in [RequiredEnv(variant) -> {"unset", "empty", "set"}]
    /\ pc = "start"
    /\ exitStatus = -1
    /\ uncaught = "none"
    /\ httpCalls = 0
    /\ fetchResult = "none"
    /\ issues = <<>>
    /\ metrics = <<>>
    /\ trace = <<>>
    /\ sinkBefore \in {<<>>, OldContent}
    /\ sink = sinkBefore
    /\ sinkOps = <<>>
    /\ writeResult = "none"
    /\ fmtPc = "off"
    /\ fmtIn = <<>>
    /\ fmtOut = <<>>
    /\ fmtOut2 = <<>>

\* An exception nobody catches: traceback, exit status 1
Crash(exc) ==
    /\ pc' = "exited"
    /\ exitStatus' = 1
    /\ uncaught' = exc

\* Module-level check: exit(1) unless every required variable is truthy
ConfigCheck ==
    /\ pc = "start"
    /\ IF ConfigOk(variant, env)
       THEN pc' = "main" /\ exitStatus' = exitStatus
       ELSE pc' = "exited" /\ exitStatus' = 1
    /\ UNCHANGED <<variant, env, uncaught, httpCalls, fetchResult, issues,
                   metrics, trace, sinkBefore, sink, sinkOps, writeResult>>
    /\ UNCHANGED fmtVars

\* jira_issues = fetch_jira_data()
FetchJiraData ==
    /\ pc = "main"
    /\ httpCalls' = httpCalls + 1
    /\ trace' = Append(trace, "fetch_jira_data")
    /\ \/ \* requests.get or raise_for_status raises a RequestException
          /\ fetchResult' = "error"
          /\ issues' = <<>>
          /\ pc' = "fetched"
          /\ UNCHANGED <<exitStatus, uncaught>>
       \/ \* the body is not JSON: response.json() raises; whether the
          \* exception is a RequestException depends on the requests release
          /\ \/ /\ fetchResult' = "error"
                /\ issues' = <<>>
                /\ pc' = "fetched"
                /\ UNCHANGED <<exitStatus, uncaught>>
             \/ /\ Crash("ValueError")
                /\ UNCHANGED <<fetchResult, issues>>
       \/ \* the body is a JSON object without an "issues" member
          /\ fetchResult' = "ok"
          /\ issues' = <<>>
          /\ pc' = "fetched"
          /\ UNCHANGED <<exitStatus, uncaught>>
       \/ \* "issues": null -- len(None) raises TypeError
          /\ Crash("TypeError")
          /\ UNCHANGED <<fetchResult, issues>>
       \/ \* the body is JSON but not an object -- .get raises AttributeError
          /\ Crash("AttributeError")
          /\ UNCHANGED <<fetchResult, issues>>
       \/ \* the body carries an issues array
          \E n \in 0..MaxIssues :
          \E c \in [1..n -> TsValues], r \in [1..n -> TsValues] :
             /\ fetchResult' = "ok"
             /\ issues' = IssueList(n, c, r)
             /\ pc' = "fetched"
             /\ UNCHANGED <<exitStatus, uncaught>>
    /\ UNCHANGED <<variant, env, metrics, sinkBefore, sink, sinkOps, writeResult>>
    /\ UNCHANGED fmtVars

\* `if jira_issues:` is false: nothing else runs
SkipPipeline ==
    /\ pc = "fetched"
    /\ issues = <<>>
    /\ pc' = "finished"
    /\ UNCHANGED <<variant, env, exitStatus, uncaught, httpCalls, fetchResult,
                   issues, metrics, trace, sinkBefore, sink, sinkOps, writeResult>>
    /\ UNCHANGED fmtVars

\* calculated_metrics = calculate_mttr(jira_issues)
CalculateMttr ==
    /\ pc = "fetched"
    /\ issues # <<>>
    /\ trace' = Append(trace, "calculate_mttr")
    /\ LET r == calculate_mttr(issues)
       IN  IF r.raised = "none"
           THEN /\ metrics' = r.metrics
                /\ pc' = "calculated"
                /\ UNCHANGED <<exitStatus, uncaught>>
           ELSE /\ Crash(r.raised)
                /\ UNCHANGED metrics
    /\ UNCHANGED <<variant, env, httpCalls, fetchResult, issues, sinkBefore,
                   sink, sinkOps, writeResult>>
    /\ UNCHANGED fmtVars

\* CSV variant, `if calculated_metrics_data:` is false
SkipWriteCsv ==
    /\ variant = "csv"
    /\ pc = "calculated"
    /\ metrics = <<>>
    /\ pc' = "finished"
    /\ UNCHANGED <<variant, env, exitStatus, uncaught, httpCalls, fetchResult,
                   issues, metrics, trace, sinkBefore, sink, sinkOps, writeResult>>
    /\ UNCHANGED fmtVars

\* write_to_csv(calculated_metrics_data), reached with a non-empty list.
\* The open or any writerow may raise; every Exception is caught.
WriteToCsv ==
    /\ variant = "csv"
    /\ pc = "calculated"
    /\ metrics # <<>>
    /\ trace' = Append(trace, "write")
    /\ LET data == data_to_upload(metrics)
       IN  \/ \* open() raises
              /\ sink' = CsvContentAfter(sink, data, FALSE, 0)
              /\ sinkOps' = <<"open">>
              /\ writeResult' = "error"
           \/ \* the writerow after `written` rows raises
              \E written \in 0..(Len(data) - 1) :
                 /\ sink' = CsvContentAfter(sink, data, TRUE, written)
                 /\ sinkOps' = <<"open">> \o [i \in 1..(written + 1) |-> "writerow"]
                 /\ writeResult' = "error"
           \/ \* every row is written
              /\ sink' = CsvContentAfter(sink, data, TRUE, Len(data))
              /\ sinkOps' = <<"open">> \o [i \in 1..Len(data) |-> "writerow"]
              /\ writeResult' = "ok"
    /\ pc' = "finished"
    /\ UNCHANGED <<variant, env, exitStatus, uncaught, httpCalls, fetchResult,
                   issues, metrics, sinkBefore>>
    /\ UNCHANGED fmtVars

\* The writer without its empty-input guard
NoMetricsUnchecked(ms) == FALSE

\* `if not metrics:` at the head of write_to_google_sheet
NoMetrics(ms) == ms = <<>>

\* write_to_google_sheet(calculated_metrics): called whatever the list holds
WriteToGoogleSheet ==
    /\ variant = "sheet"
    /\ pc = "calculated"
    /\ trace' = Append(trace, "write")
    /\ IF NoMetrics(metrics)
       THEN /\ writeResult' = "skipped"
            /\ UNCHANGED <<sink, sinkOps>>
       ELSE LET data == data_to_upload(metrics)
            IN  \/ \* the k-th remote call raises
                   \E k \in 1..Len(SheetSteps) : \E branch \in SheetBranches(k) :
                      /\ sink' = SheetContentAfter(sink, data, k)
                      /\ sinkOps' = SubSeq(SheetSteps, 1, k)
                      /\ writeResult' = branch
                \/ \* no call raises
                   /\ sink' = SheetContentAfter(sink, data, 0)
                   /\ sinkOps' = SheetSteps
                   /\ writeResult' = "ok"
    /\ pc' = "finished"
    /\ UNCHANGED <<variant, env, exitStatus, uncaught, httpCalls, fetchResult,
                   issues, metrics, sinkBefore>>
    /\ UNCHANGED fmtVars

\* print("ETL process finished.") and the interpreter exits with status 0
ProcessExit ==
    /\ pc = "finished"
    /\ pc' = "exited"
    /\ exitStatus' = 0
    /\ UNCHANGED <<variant, env, uncaught, httpCalls, fetchResult, issues,
                   metrics, trace, sinkBefore, sink, sinkOps, writeResult>>
    /\ UNCHANGED fmtVars

Next ==
    \/ ConfigCheck
    \/ FetchJiraData
    \/ SkipPipeline
    \/ CalculateMttr
    \/ SkipWriteCsv
    \/ WriteToCsv
    \/ WriteToGoogleSheet
    \/ ProcessExit

Spec == Init /\ [][Next]_vars

----------------------------------------------------------------------------
(* reformat_jira_timestamp applied once and twice to an arbitrary string *)

InitFmt ==
    /\ variant = "csv"
    /\ env = [name \in RequiredEnv("csv") |-> "unset"]
    /\ pc = "off"
    /\ exitStatus = -1
    /\ uncaught = "none"
    /\ httpCalls = 0
    /\ fetchResult = "none"
    /\ issues = <<>>
    /\ metrics = <<>>
    /\ trace = <<>>
    /\ sinkBefore = <<>>
    /\ sink = <<>>
    /\ sinkOps = <<>>
    /\ writeResult = "none"
    /\ fmtPc = "in"
    /\ fmtIn \in FmtStrings
    /\ fmtOut = <<>>
    /\ fmtOut2 = <<>>

Reformat ==
    /\ fmtPc = "in"
    /\ fmtOut' = reformat_jira_timestamp(fmtIn)
    /\ fmtPc' = "once"
    /\ UNCHANGED <<fmtIn, fmtOut2>>
    /\ UNCHANGED pipeVars

ReformatAgain ==
    /\ fmtPc = "once"
    /\ fmtOut2' = reformat_jira_timestamp(fmtOut)
    /\ fmtPc' = "twice"
    /\ UNCHANGED <<fmtIn, fmtOut>>
    /\ UNCHANGED pipeVars

NextFmt ==
    \/ Reformat
    \/ ReformatAgain

SpecFmt == InitFmt /\ [][NextFmt]_vars

----------------------------------------------------------------------------
(* Properties *)

\* calculate_mttr has been called in this run
CalcCalled == Len(trace) >= 2 /\ trace[2] = "calculate_mttr"

\* Both timestamps of the issue are present and parse after normalization
BothParse(issue) ==
    /\ Truthy(issue.created)
    /\ Truthy(issue.resolutiondate)
    /\ fromisoformat(reformat_jira_timestamp(issue.created.str)).ok
    /\ fromisoformat(reformat_jira_timestamp(issue.resolutiondate.str)).ok

\* The moment a stored timestamp string denotes
InstantOf(v) == fromisoformat(reformat_jira_timestamp(v.str)).minutes

\* C1: calculate_mttr never aborts the batch -- once it has been called it
\* returns normally, and every issue whose two timestamps are present and
\* parseable has its record.
C1_NeverAborts ==
    CalcCalled =>
        /\ uncaught = "none"
        /\ \A i \in 1..Len(issues) :
              BothParse(issues[i]) =>
                 \E j \in 1..Len(metrics) : metrics[j].key = issues[i].key

\* C2 as stated: every record returned by calculate_mttr has
\* mttr_hours >= 0, also when the issue was resolved before it was created.
C2_AlwaysNonNegative ==
    \A j \in 1..Len(metrics) : metrics[j].mttr_hours >= 0

\* C2 amended: a record has mttr_hours >= 0 whenever its resolution moment
\* is not earlier than its creation moment.
C2_NonNegativeWhenOrdered ==
    \A j \in 1..Len(metrics) :
        InstantOf(metrics[j].resolved) >= InstantOf(metrics[j].created)
            => metrics[j].mttr_hours >= 0

\* C2 witness: a record for an issue resolved 59 minutes after its creation
C2_Witness ==
    \E j \in 1..Len(metrics) :
        /\ InstantOf(metrics[j].resolved) > InstantOf(metrics[j].created)
        /\ metrics[j].mttr_hours = 98

\* The normalization as the specification words it: only a trailing "Z" is
\* expanded, then the colon is inserted into a colon-less offset.
ReferenceNormalize(s) ==
    LET t == IF Len(s) >= 1 /\ s[Len(s)] = "Z"
             THEN SubSeq(s, 1, Len(s) - 1) \o <<"+", "0", "0", ":", "0", "0">>
             ELSE s
    IN  IF Len(t) >= 5 /\ t[Len(t) - 4] \in {"+", "-"} /\ t[Len(t) - 2] # ":"
        THEN SubSeq(t, 1, Len(t) - 2) \o <<":">> \o SubSeq(t, Len(t) - 1, Len(t))
        ELSE t

\* C3: for every input string reformat_jira_timestamp returns what the
\* reference normalization returns (only a trailing "Z" is replaced).
C3_MatchesReference ==
    fmtPc \in {"once", "twice"} => fmtOut = ReferenceNormalize(fmtIn)

\* C4: normalization is idempotent -- applying reformat_jira_timestamp to
\* its own result gives that result again.
C4_Idempotent ==
    fmtPc = "twice" => fmtOut2 = fmtOut

\* C4 witness: the normalization inserted a colon into "+0000" and the
\* result was normalized a second time
C4_Witness ==
    /\ fmtPc = "twice"
    /\ fmtIn = <<"+", "0", "0", "0", "0">>
    /\ fmtOut = <<"+", "0", "0", ":", "0", "0">>
    /\ fmtOut2 = fmtOut

\* C5: the records of calculate_mttr are, in input order, exactly the
\* issues whose timestamps are both present and both parse, each with the
\* issue's key, summary and original created / resolved strings.
C5_RecordsMatchIssues ==
    CalcCalled =>
        LET good == SelectSeq(issues, BothParse)
        IN  /\ Len(metrics) = Len(good)
            /\ \A j \in 1..Len(good) :
                  /\ metrics[j].key = good[j].key
                  /\ metrics[j].summary = good[j].summary
                  /\ metrics[j].created = good[j].created
                  /\ metrics[j].resolved = good[j].resolutiondate

\* Some required environment variable of the variant is unset or empty
MissingConfig ==
    \/ env["JIRA_URL"] \in {"unset", "empty"}
    \/ env["JIRA_EMAIL"] \in {"unset", "empty"}
    \/ env["JIRA_API_TOKEN"] \in {"unset", "empty"}
    \/ /\ variant = "sheet"
       /\ env["GOOGLE_SHEETS_CREDS_JSON_PATH"] \in {"unset", "empty"}

\* C6: with a required environment variable unset or empty the run only
\* ever exits with status 1, and no HTTP request, file write or spreadsheet
\* call occurs.
C6_MissingConfigExits ==
    (pc # "off" /\ MissingConfig) =>
        /\ pc \in {"start", "exited"}
        /\ pc = "exited" => exitStatus = 1
        /\ pc = "start" => exitStatus = -1
        /\ httpCalls = 0
        /\ trace = <<>>
        /\ sinkOps = <<>>
        /\ sink = sinkBefore

\* C6 witness: a run that exited because a variable was set to the empty
\* string while all others were set
C6_Witness ==
    /\ pc = "exited"
    /\ exitStatus = 1
    /\ env["JIRA_API_TOKEN"] = "empty"
    /\ \A name \in DOMAIN env : name # "JIRA_API_TOKEN" => env[name] = "set"

\* C7: a run whose configuration is complete ends with exit status 0,
\* whatever failed inside fetch, calculate or write.
C7_CompleteConfigExitsZero ==
    (pc = "exited" /\ ~MissingConfig) => exitStatus = 0

\* C8: the stages run in the order fetch, calculate, write; when the fetch
\* fails or returns no issue, calculate_mttr is not run and the sink is
\* untouched; when calculate_mttr returns no record, the sink is untouched.
C8_StagesShortCircuit ==
    /\ \A i \in 1..Len(trace) :
          trace[i] = <<"fetch_jira_data", "calculate_mttr", "write">>[i]
    /\ (pc \in {"fetched", "finished", "exited"} /\ issues = <<>>) =>
          /\ ~CalcCalled
          /\ sinkOps = <<>>
          /\ sink = sinkBefore
    /\ metrics = <<>> =>
          /\ sinkOps = <<>>
          /\ sink = sinkBefore

\* C8 witness: a spreadsheet run in which issues were fetched,
\* calculate_mttr returned no record and the writer was called
C8_Witness ==
    /\ variant = "sheet"
    /\ pc = "exited"
    /\ issues # <<>>
    /\ metrics = <<>>
    /\ writeResult = "skipped"

\* C9: after a sink write that completed without error the destination
\* holds the five-column header and then one row per record in order and
\* nothing else; the spreadsheet is cleared before it is updated.
C9_DestinationHoldsRecords ==
    writeResult = "ok" =>
        /\ Len(sink) = Len(metrics) + 1
        /\ sink[1] = << TextCell(<<"Issue Key">>), TextCell(<<"Summary">>),
                        TextCell(<<"Created Date">>), TextCell(<<"Resolved Date">>),
                        TextCell(<<"MTTR (Hours)">>) >>
        /\ \A i \in 1..Len(metrics) :
              /\ sink[i + 1][1].s = metrics[i].key.str
              /\ sink[i + 1][2].s = (IF metrics[i].summary.isNull THEN <<>>
                                     ELSE metrics[i].summary.str)
              /\ sink[i + 1][3].s = metrics[i].created.str
              /\ sink[i + 1][4].s = metrics[i].resolved.str
              /\ sink[i + 1][5].n = metrics[i].mttr_hours
        /\ variant = "sheet" =>
              sinkOps = <<"authorize", "open", "clear", "update">>
        /\ variant = "csv" => sinkOps[1] = "open"

\* C9 witness: a successful spreadsheet write of two records over the
\* longer content of an earlier run
C9_Witness ==
    /\ variant = "sheet"
    /\ writeResult = "ok"
    /\ Len(metrics) = 2
    /\ sinkBefore = OldContent

\* The writer ended in one of write_to_google_sheet's except branches
SheetWriteFailed ==
    variant = "sheet" /\ writeResult \in {"notfound", "apierror", "other"}

\* C10 as stated: a failed spreadsheet write leaves the first tab as it was
\* before the call.
C10_FailedWriteLeavesTab ==
    SheetWriteFailed => sink = sinkBefore

\* C10 amended: after a failed spreadsheet write the first tab is as it was
\* when the failure came before update(), and is empty when update() failed.
C10_FailedWriteOldOrCleared ==
    SheetWriteFailed =>
        IF Len(sinkOps) = 4 THEN sink = <<>> ELSE sink = sinkBefore

\* C10 witness: update() failed on a tab that held an earlier run's rows
C10_Witness ==
    /\ SheetWriteFailed
    /\ sinkOps = <<"authorize", "open", "clear", "update">>
    /\ sinkBefore = OldContent
    /\ sink = <<>>

====
